---- MODULE Spec2Model ----
(***************************************************************************)
(* Fashion Studio ETL pipeline: the Pagination Walker (utils/extract.py),  *)
(* the Record Transformer and its Field Normalizers (utils/transform.py),  *)
(* the Sink Dispatcher (utils/load.py) and run_etl_pipeline (main.py).     *)
(*                                                                         *)
(* Text is a sequence of one-character strings, so that the regular        *)
(* expressions of the source are computed on the characters.  A float is   *)
(* a fixed-point integer counting hundredths (4.8 is 480); the texts of    *)
(* the model carry at most two fraction digits, so the conversion is exact.*)
(***************************************************************************)
EXTENDS Integers, Sequences, FiniteSets, TLC

-----------------------------------------------------------------------------
(* Bounds of the model *)

\* rows of a raw table handed to transform_data
MaxRows == 2

-----------------------------------------------------------------------------
(* Cell values: None/NaN, str, float, int.  A float is the double nearest  *)
(* to n hundredths, moved off doubles up (off > 0) or down (off < 0).  An  *)
(* int too large for 64 bits is kept as big = TRUE (its digits are not     *)
(* needed).                                                                *)

Null == [t |-> "null", s |-> <<>>, n |-> 0, big |-> FALSE, off |-> 0]
StrVal(chars) == [t |-> "str", s |-> chars, n |-> 0, big |-> FALSE, off |-> 0]
FloatVal(h) == [t |-> "float", s |-> <<>>, n |-> h, big |-> FALSE, off |-> 0]
FloatOff(h, k) == [t |-> "float", s |-> <<>>, n |-> h, big |-> FALSE, off |-> k]
IntVal(k) == [t |-> "int", s |-> <<>>, n |-> k, big |-> FALSE, off |-> 0]
BigInt == [t |-> "int", s |-> <<>>, n |-> 0, big |-> TRUE, off |-> 0]

\* pd.isna(x)
isna(x) == x.t = "null"

-----------------------------------------------------------------------------
(* Characters and substrings *)

Digits == <<"0", "1", "2", "3", "4", "5", "6", "7", "8", "9">>

IsDigit(c) == \E d \in 1..10 : Digits[d] = c

DigitVal(c) == (CHOOSE d \in 1..10 : Digits[d] = c) - 1

\* \s of the re module, on the characters the texts of the model use
IsSpace(c) == c = " "

\* s[i..j] as a sequence (empty when j < i)
Slice(s, i, j) == [k \in 1..(IF j >= i THEN j - i + 1 ELSE 0) |-> s[i + k - 1]]

\* the literal sub occurs in s at position i
OccursAt(s, sub, i) ==
    /\ i >= 1
    /\ i + Len(sub) - 1 <= Len(s)
    /\ \A k \in 1..Len(sub) : s[i + k - 1] = sub[k]

\* the first position at or after i that holds no digit (Len(s)+1 at the end)
RECURSIVE DigitRunEnd(_, _)
DigitRunEnd(s, i) ==
    IF i <= Len(s) /\ IsDigit(s[i]) THEN DigitRunEnd(s, i + 1) ELSE i

\* the first position at or after i that holds no whitespace
RECURSIVE SkipSpace(_, _)
SkipSpace(s, i) ==
    IF i <= Len(s) /\ IsSpace(s[i]) THEN SkipSpace(s, i + 1) ELSE i

\* str.strip()
RECURSIVE strip(_)
strip(s) ==
    IF s = <<>> THEN s
    ELSE IF IsSpace(s[1]) THEN strip(Tail(s))
    ELSE IF IsSpace(s[Len(s)]) THEN strip(Slice(s, 1, Len(s) - 1))
    ELSE s

\* int() of a digit string
RECURSIVE DigitsToInt(_)
DigitsToInt(ds) ==
    IF ds = <<>> THEN 0
    ELSE 10 * DigitsToInt(Slice(ds, 1, Len(ds) - 1)) + DigitVal(ds[Len(ds)])

\* float() of the text "N" or "N.M" (M of one or two digits), in hundredths
ToFloat(num) ==
    LET e == DigitRunEnd(num, 1)
        whole == DigitsToInt(Slice(num, 1, e - 1))
        frac == Slice(num, e + 1, Len(num))
    IN  IF e > Len(num) THEN 100 * whole
        ELSE IF Len(frac) = 1 THEN 100 * whole + 10 * DigitsToInt(frac)
        ELSE 100 * whole + DigitsToInt(Slice(frac, 1, 2))

\* the group (\d+\.\d+|\d+) matched from the digit at position i: the digit
\* run, with the point and the fraction digits when they follow it; <<i, j>>
\* are the ends of the two alternatives (0 when the first does not match)
NumberEnds(s, i) ==
    LET e == DigitRunEnd(s, i)
        f == IF e + 1 <= Len(s) /\ s[e] = "." /\ IsDigit(s[e + 1])
             THEN DigitRunEnd(s, e + 1) ELSE 0
    IN  <<f, e>>

-----------------------------------------------------------------------------
(* Literals of the source *)

PriceUnavailable ==
    <<"P", "r", "i", "c", "e", " ", "U", "n", "a", "v", "a", "i", "l", "a", "b", "l", "e">>
Unavailable == <<"U", "n", "a", "v", "a", "i", "l", "a", "b", "l", "e">>
UnknownProduct ==
    <<"U", "n", "k", "n", "o", "w", "n", " ", "P", "r", "o", "d", "u", "c", "t">>
ColorsWord == <<"C", "o", "l", "o", "r", "s">>
SizeLabel == <<"S", "i", "z", "e", ":">>
GenderLabel == <<"G", "e", "n", "d", "e", "r", ":">>

\* the exchange rate, IDR per USD
ExchangeRate == 16000

-----------------------------------------------------------------------------------------------------------------------------------------------------
(* Double precision: float(text) * 16000 as the interpreter computes it.   *)
(* float() gives the double nearest to c/100: its significand m is the     *)
(* binary expansion of c/100 carried to 53 significant bits and rounded,   *)
(* ties to even, so that c/100 = (m + e) * 2^-f for f fraction bits and a  *)
(* rounding error e of at most half a unit.  The product m * 2^-f * 16000  *)
(* is rounded to a double again; it lies 16000 * e units of 2^-f from the  *)
(* decimal product, which is a double itself, and the rounded product is   *)
(* that double exactly when the distance is at most half the gap between   *)
(* neighbouring doubles there.                                             *)

\* the bits of the significand of a double
MantissaBits == 53

RECURSIVE BitLength(_)
BitLength(k) == IF k = 0 THEN 0 ELSE 1 + BitLength(k \div 2)

\* the zero bits between the point and the first one bit of r/100, r > 0
RECURSIVE LeadingZeros(_)
LeadingZeros(r) == IF 2 * r >= 100 THEN 0 ELSE 1 + LeadingZeros(2 * r)

\* the fraction bits of the double nearest to c/100, c > 0
FractionBits(c) ==
    IF c >= 100 THEN MantissaBits - BitLength(c \div 100)
    ELSE MantissaBits + LeadingZeros(c)

\* the expansion of c/100 after f fraction bits, the last bit being last and
\* r/100 of a unit being left: 100 times what rounding adds to it
RECURSIVE RoundingError(_, _, _, _)
RoundingError(last, r, f, target) ==
    IF f >= target
    THEN (IF 2 * r > 100 \/ (2 * r = 100 /\ last = 1) THEN 100 - r ELSE 0 - r)
    ELSE IF 2 * r >= 100 THEN RoundingError(1, 2 * r - 100, f + 1, target)
    ELSE RoundingError(0, 2 * r, f + 1, target)

\* float() of a text worth c hundredths, times the exchange rate: 0 when
\* the product the interpreter rounds is the decimal product c * 16000 / 100,
\* 1 when it is the next double above it, -1 when the next below
PriceOffset(c) ==
    IF c = 0 THEN 0
    ELSE LET f == FractionBits(c)
             err == ExchangeRate * RoundingError((c \div 100) % 2, c % 100, 0, f)
             exact == (c * ExchangeRate) \div 100
             half == 2 ^ (BitLength(exact) + f - MantissaBits - 1)
             below == IF 2 ^ (BitLength(exact) - 1) = exact THEN half \div 2 ELSE half
         IN  IF err > 100 * half THEN 1
             ELSE IF 0 - err > 100 * below THEN -1
             ELSE 0

-----
(* Field Normalizers *)

\* re.search(r'\$?(\d+\.\d+|\d+)', price): the leftmost match holds the
\* first digit of the text; group 1 starts there
PriceGroup(s) ==
    LET ds == {i \in 1..Len(s) : IsDigit(s[i])} IN
    IF ds = {} THEN <<>>
    ELSE LET i == CHOOSE k \in ds : \A m \in ds : k <= m
             ends == NumberEnds(s, i)
         IN  Slice(s, i, (IF ends[1] # 0 THEN ends[1] ELSE ends[2]) - 1)

clean_price(price) ==
    IF isna(price) THEN Null
    ELSE IF price.t # "str" THEN Null      \* re.search raises TypeError, caught
    ELSE IF price.s = PriceUnavailable \/ price.s = Unavailable THEN Null
    ELSE IF PriceGroup(price.s) = <<>> THEN Null
    ELSE LET c == ToFloat(PriceGroup(price.s)) IN
         FloatOff(c * ExchangeRate, PriceOffset(c))

\* \s*\/\s*5 matches at position i
RatingTailAt(s, i) ==
    LET a == SkipSpace(s, i) IN
    /\ a <= Len(s)
    /\ s[a] = "/"
    /\ LET b == SkipSpace(s, a + 1) IN b <= Len(s) /\ s[b] = "5"

\* the end of group 1 of (\d+\.\d+|\d+)\s*\/\s*5 matched at position i, or 0
RatingMatchAt(s, i) ==
    IF ~IsDigit(s[i]) THEN 0
    ELSE LET ends == NumberEnds(s, i) IN
         IF ends[1] # 0 /\ RatingTailAt(s, ends[1]) THEN ends[1]
         ELSE IF RatingTailAt(s, ends[2]) THEN ends[2]
         ELSE 0

clean_rating(rating) ==
    IF isna(rating) THEN Null
    ELSE IF rating.t # "str" THEN Null     \* re.search raises TypeError, caught
    ELSE LET s == rating.s
             ms == {i \in 1..Len(s) : RatingMatchAt(s, i) # 0}
         IN  IF ms = {} THEN Null
             ELSE LET i == CHOOSE k \in ms : \A m \in ms : k <= m
                  IN  FloatVal(ToFloat(Slice(s, i, RatingMatchAt(s, i) - 1)))

\* the end of group 1 of (\d+)\s*Colors matched at position i, or 0
ColorsMatchAt(s, i) ==
    IF ~IsDigit(s[i]) THEN 0
    ELSE LET e == DigitRunEnd(s, i) IN
         IF OccursAt(s, ColorsWord, SkipSpace(s, e)) THEN e ELSE 0

\* digit strings longer than this exceed every 64-bit integer
Int64Digits == 20

clean_colors(colors) ==
    IF isna(colors) THEN Null
    ELSE IF colors.t # "str" THEN Null     \* re.search raises TypeError, caught
    ELSE LET s == colors.s
             ms == {i \in 1..Len(s) : ColorsMatchAt(s, i) # 0}
         IN  IF ms = {} THEN Null
             ELSE LET i == CHOOSE k \in ms : \A m \in ms : k <= m
                      e == ColorsMatchAt(s, i)
                  IN  IF e - i > Int64Digits THEN BigInt
                      ELSE IntVal(DigitsToInt(Slice(s, i, e - 1)))

\* re.search(label + r'\s*(.+)', text).group(1).strip(): what follows the
\* first occurrence of the label, stripped; no match when nothing follows it
AfterLabel(s, label) ==
    LET os == {i \in 1..Len(s) : OccursAt(s, label, i)} IN
    IF os = {} THEN Null
    ELSE LET i == CHOOSE k \in os : \A m \in os : k <= m
             rest == Slice(s, i + Len(label), Len(s))
         IN  IF rest = <<>> THEN Null ELSE StrVal(strip(rest))

clean_size(size) ==
    IF isna(size) THEN Null
    ELSE IF size.t # "str" THEN Null       \* re.search raises TypeError, caught
    ELSE AfterLabel(size.s, SizeLabel)

clean_gender(gender) ==
    IF isna(gender) THEN Null
    ELSE IF gender.t # "str" THEN Null     \* re.search raises TypeError, caught
    ELSE AfterLabel(gender.s, GenderLabel)

-----------------------------------------------------------------------------
(* Tables (pandas.DataFrame).  A row keeps its index label, as pandas does *)
(* through boolean indexing, dropna and drop_duplicates.  cols is the set  *)
(* of columns the frame has; the cell of a column it lacks is never read.  *)

BusinessCols == {"Title", "Price", "Rating", "Colors", "Size", "Gender"}
AllCols == BusinessCols \cup {"timestamp"}

\* None passed where a DataFrame is expected
NoneFrame == [kind |-> "none", cols |-> {}, rows |-> <<>>]

\* pd.DataFrame()
EmptyFrame == [kind |-> "frame", cols |-> {}, rows |-> <<>>]

Frame(cols, rows) == [kind |-> "frame", cols |-> cols, rows |-> rows]

\* DataFrame.empty: some axis has length 0
IsEmpty(df) == df.rows = <<>> \/ df.cols = {}

\* the rows at the positions of keep, in order
RECURSIVE KeepPositions(_, _, _)
KeepPositions(rows, keep, i) ==
    IF i > Len(rows) THEN <<>>
    ELSE IF i \in keep THEN <<rows[i]>> \o KeepPositions(rows, keep, i + 1)
    ELSE KeepPositions(rows, keep, i + 1)

\* boolean indexing: the rows at the positions where the mask is true, in order
SelectRows(rows, keep) == KeepPositions(rows, keep, 1)

\* the function transform_data applies to column col
Cleaner(col, v) ==
    CASE col = "Price" -> clean_price(v)
      [] col = "Rating" -> clean_rating(v)
      [] col = "Colors" -> clean_colors(v)
      [] col = "Size" -> clean_size(v)
      [] col = "Gender" -> clean_gender(v)

\* Series.apply of the column's function, stored back into column col
ApplyColumn(rows, col) ==
    [i \in 1..Len(rows) |-> [rows[i] EXCEPT ![col] = Cleaner(col, rows[i][col])]]

\* DedupKey as it would be if the subset did not leave the timestamp out
DedupKeyWithTimestamp(row) ==
    <<row.Title, row.Price, row.Rating, row.Colors, row.Size, row.Gender, row.timestamp>>

\* the duplicate key of drop_duplicates(subset=[...])
DedupKey(row) ==
    <<row.Title, row.Price, row.Rating, row.Colors, row.Size, row.Gender>>

\* drop_duplicates(subset=...): keep='first'
drop_duplicates(rows) ==
    LET first(i) == \A j \in 1..(i - 1) : DedupKey(rows[j]) # DedupKey(rows[i])
    IN  KeepPositions(rows, {i \in 1..Len(rows) : first(i)}, 1)

\* NoNullField as it would be if the subset left Gender out
NoNullFieldButGender(row) == \A c \in BusinessCols \ {"Gender"} : ~isna(row[c])

\* dropna(subset=[the six business columns])
NoNullField(row) == \A c \in BusinessCols : ~isna(row[c])

dropna(rows) == SelectRows(rows, {i \in 1..Len(rows) : NoNullField(rows[i])})

\* df_clean[df_clean['Title'] != "Unknown Product"]: a null title compares
\* unequal and stays
NotUnknownProduct(row) == row.Title # StrVal(UnknownProduct)

\* Series.apply infers the dtype of the cleaned Colors column: an int beyond
\* 64 bits met before any None leaves the column an object column, whose
\* astype(int) raises OverflowError; met after a None, the column is a float
\* column and its astype(int) raises nothing
ObjectColumn(cells) ==
    \E j \in 1..Len(cells) :
        /\ cells[j].big
        /\ \A i \in 1..(j - 1) : ~isna(cells[i]) /\ ~cells[i].big

\* the cleaned Colors column of the input, in input order
CleanedColors(input) == [i \in 1..Len(input) |-> clean_colors(input[i].Colors)]

\* line 184 raises
AstypeFaults(input, rows) ==
    /\ \E i \in 1..Len(rows) : rows[i].Colors.big
    /\ ObjectColumn(CleanedColors(input))

-----------------------------------------------------------------------------
(* Raw texts the transformer is exercised on.  "*" stands for the star     *)
(* glyph of the site's rating text.                                        *)

TitleA == StrVal(<<"A">>)
TitleB == StrVal(<<"B">>)
TitleEmpty == StrVal(<<>>)
TitleUnknown == StrVal(UnknownProduct)
Price1050 == StrVal(<<"$", "1", "0", ".", "5", "0">>)
PriceBare1050 == StrVal(<<"1", "0", ".", "5", "0">>)
Price50 == StrVal(<<"$", "5", "0">>)
PriceZero == StrVal(<<"$", "0", ".", "0", "0">>)
PriceNA == StrVal(PriceUnavailable)
Rating48 == StrVal(<<"R", "a", "t", "i", "n", "g", ":", " ", "*", " ", "4", ".", "8", " ", "/", " ", "5">>)
Rating3 == StrVal(<<"R", "a", "t", "i", "n", "g", ":", " ", "*", " ", "3", " ", "/", " ", "5">>)
Rating99 == StrVal(<<"R", "a", "t", "i", "n", "g", ":", " ", "*", " ", "9", ".", "9", " ", "/", " ", "5">>)
RatingInvalid == StrVal(<<"R", "a", "t", "i", "n", "g", ":", " ", "*", " ", "I", "n", "v", "a", "l", "i", "d", " ", "R", "a", "t", "i", "n", "g", " ", "/", " ", "5">>)
Colors3 == StrVal(<<"3", " ", "C", "o", "l", "o", "r", "s">>)
Colors0 == StrVal(<<"0", " ", "C", "o", "l", "o", "r", "s">>)
ColorsNone == StrVal(ColorsWord)
ColorsHuge == StrVal(<<"9", "9", "9", "9", "9", "9", "9", "9", "9", "9", "9", "9", "9", "9", "9", "9", "9", "9", "9", "9", "9", " ", "C", "o", "l", "o", "r", "s">>)
SizeM == StrVal(<<"S", "i", "z", "e", ":", " ", "M">>)
SizeBlank == StrVal(<<"S", "i", "z", "e", ":", " ">>)
SizeNoValue == StrVal(<<"S", "i", "z", "e">>)
GenderMen == StrVal(<<"G", "e", "n", "d", "e", "r", ":", " ", "M", "e", "n">>)
GenderUnisex == StrVal(<<"G", "e", "n", "d", "e", "r", ":", " ", "U", "n", "i", "s", "e", "x">>)
GenderKids == StrVal(<<"G", "e", "n", "d", "e", "r", ":", " ", "K", "i", "d", "s">>)
GenderNoValue == StrVal(<<"G", "e", "n", "d", "e", "r">>)
Stamp1 == StrVal(<<"1", "4", ":", "4", "1", ":", "1", "0">>)
Stamp2 == StrVal(<<"1", "4", ":", "4", "1", ":", "1", "2">>)

RawRecord(title, price, rating, colors, size, gender, stamp) ==
    [idx |-> 0, Title |-> title, Price |-> price, Rating |-> rating,
     Colors |-> colors, Size |-> size, Gender |-> gender, timestamp |-> stamp]

GoodRecord == RawRecord(TitleA, Price1050, Rating48, Colors3, SizeM, GenderMen, Stamp1)

\* the records raw tables are drawn from: a fully valid listing, the same
\* listing scraped at another time, a second valid listing, and the valid
\* listing with one field replaced by each irregular text
RawRecords ==
    {GoodRecord,
     [GoodRecord EXCEPT !.timestamp = Stamp2],
     RawRecord(TitleB, Price50, Rating3, Colors3, SizeM, GenderUnisex, Stamp1)}
    \cup {[GoodRecord EXCEPT !.Title = v] : v \in {TitleUnknown, TitleEmpty, Null}}
    \cup {[GoodRecord EXCEPT !.Price = v] : v \in {PriceBare1050, PriceZero, PriceNA, Null}}
    \cup {[GoodRecord EXCEPT !.Rating = v] : v \in {Rating99, RatingInvalid}}
    \cup {[GoodRecord EXCEPT !.Colors = v] : v \in {Colors0, ColorsNone, ColorsHuge}}
    \cup {[GoodRecord EXCEPT !.Size = v] : v \in {SizeBlank, SizeNoValue}}
    \cup {[GoodRecord EXCEPT !.Gender = v] : v \in {GenderKids, GenderNoValue}}

\* pd.DataFrame(list of records): the index labels are 0, 1, 2, ...
Indexed(recs) == [i \in 1..Len(recs) |-> [recs[i] EXCEPT !.idx = i - 1]]

RECURSIVE SeqsUpTo(_, _)
SeqsUpTo(S, n) ==
    IF n = 0 THEN {<<>>}
    ELSE LET shorter == SeqsUpTo(S, n - 1)
         IN  shorter \cup {Append(q, x) : q \in {r \in shorter : Len(r) = n - 1}, x \in S}

\* the column sets of the raw tables: complete, or one column missing
RawColumnSets ==
    {AllCols, AllCols \ {"Price"}, AllCols \ {"Gender"}, AllCols \ {"timestamp"}}

\* one listing scraped repeatedly, its price shown in two ways
RescrapedRecords ==
    {[r EXCEPT !.timestamp = t] :
        r \in {GoodRecord, [GoodRecord EXCEPT !.Price = PriceBare1050]},
        t \in {Stamp1, Stamp2}}

\* the most digits before the point of a generated price text
MaxWholeDigits == 2

\* the digits generated price texts are written with
PriceDigits == {"0", "1", "2"}

\* the strings of exactly n of these digits
RECURSIVE DigitStrings(_)
DigitStrings(n) ==
    IF n = 0 THEN {<<>>}
    ELSE {Append(q, d) : q \in DigitStrings(n - 1), d \in PriceDigits}

\* N and M of the price texts $N and $N.M (M of one or two digits)
WholeParts == UNION {DigitStrings(n) : n \in 1..MaxWholeDigits}
FractionParts == DigitStrings(1) \cup DigitStrings(2)

PriceTexts ==
    {<<"$">> \o n : n \in WholeParts}
    \cup {<<"$">> \o n \o <<".">> \o m : n \in WholeParts, m \in FractionParts}

Price10000 == StrVal(<<"$", "1", "0", "0", ".", "0", "0">>)
PriceUnavailableShort == StrVal(Unavailable)

\* the valid listing with each of the price texts
PricedRecords ==
    {[GoodRecord EXCEPT !.Price = v] :
        v \in {StrVal(t) : t \in PriceTexts} \cup {Price10000, PriceUnavailableShort}}

\* the raw tables: None, the empty table, the tables of up to MaxRows
\* records, the tables of one more row of the repeatedly scraped listing,
\* and a one-row table of each priced record
RawTables ==
    {NoneFrame, EmptyFrame}
    \cup {Frame(cs, Indexed(recs)) :
            cs \in RawColumnSets, recs \in (SeqsUpTo(RawRecords, MaxRows) \ {<<>>})}
    \cup {Frame(AllCols, Indexed(recs)) :
            recs \in {q \in SeqsUpTo(RescrapedRecords, MaxRows + 1) : Len(q) = MaxRows + 1}}
    \cup {Frame(AllCols, Indexed(<<r>>)) : r \in PricedRecords}

-----------------------------------------------------------------------------
(* The remote site.  A page is its listing containers (div.collection-card)*)
(* and its anchors; a URL is <<scheme and host, path>>.                    *)

\* the largest page budget the Walker is started with
MaxPagesBound == 3

BaseUrl == <<"https://fashion-studio.dicoding.dev", "">>

\* an element of div.product-details: its tag and its text
Elem(tag, text) == [tag |-> tag, text |-> text]

\* a listing container: whether it has a div.product-details, the text of
\* its h3.product-title (Null when there is none), its other elements,
\* whether reading it raises an exception
Card(details, title, elems) ==
    [details |-> details, title |-> title, elems |-> elems, faults |-> FALSE]

\* an anchor: whether its class is page-link, its text, its href
\* (<<>> when the attribute is absent; a root-relative href has host "")
Anchor(cls, text, href) == [cls |-> cls, text |-> text, href |-> href]

GoodElems ==
    <<Elem("span", Price1050.s), Elem("p", Rating48.s), Elem("p", Colors3.s),
      Elem("p", SizeM.s), Elem("p", GenderMen.s)>>

CardGood == Card(TRUE, TitleA, GoodElems)
CardWhole == Card(TRUE, TitleB, [GoodElems EXCEPT ![1] = Elem("span", Price50.s)])
CardPriceNA == Card(TRUE, TitleB, [GoodElems EXCEPT ![1] = Elem("p", PriceUnavailable)])
CardNoTitle == Card(TRUE, Null, GoodElems)
CardNoDetails == Card(FALSE, Null, <<>>)
CardFaulty == [Card(TRUE, TitleB, GoodElems) EXCEPT !.faults = TRUE]

NextRelative == Anchor(TRUE, "Next", <<"", "/page2">>)
NextPlain == Anchor(FALSE, "Next", <<"", "/page2">>)
NextAbsolute == Anchor(TRUE, "Next", <<"https://mirror.example", "/page3">>)
PrevRelative == Anchor(TRUE, "Prev", <<"", "/page1">>)

Page(cards, anchors) == [cards |-> cards, anchors |-> anchors]

\* the pages the site may answer with
SitePages ==
    {Page(<<CardGood, CardWhole>>, <<PrevRelative, NextRelative>>),
     Page(<<CardGood>>, <<NextAbsolute>>),
     Page(<<CardNoDetails, CardPriceNA, CardFaulty, CardNoTitle>>, <<NextRelative>>),
     Page(<<CardGood>>, <<PrevRelative>>),
     Page(<<CardGood>>, <<NextPlain>>),
     Page(<<>>, <<NextRelative>>)}

\* 'sub' in text
Contains(s, sub) == \E i \in 1..Len(s) : OccursAt(s, sub, i)

\* re.compile(r'\$\d+\.\d+').search(text)
HasDollarDecimal(s) ==
    \E i \in 1..Len(s) :
        /\ s[i] = "$"
        /\ i + 1 <= Len(s)
        /\ IsDigit(s[i + 1])
        /\ NumberEnds(s, i + 1)[1] # 0

\* datetime.now().strftime(...) at clock second c
strftime(c) == StrVal(<<"1", "4", ":", "4", "1", ":", "1", Digits[c + 1]>>)

RatingLabel == <<"R", "a", "t", "i", "n", "g", ":">>
RatingWord == <<"R", "a", "t", "i", "n", "g">>

\* the test the loop for a field makes on the text of a p element
Wanted(field, t) ==
    CASE field = "Rating" -> Contains(t, RatingLabel)
      [] field = "Colors" -> Contains(t, ColorsWord) /\ ~Contains(t, RatingWord)
      [] field = "Size" -> Contains(t, SizeLabel)
      [] field = "Gender" -> Contains(t, GenderLabel)

\* the stripped text of the first p element the loop for a field accepts, or None
FirstParagraph(elems, field) ==
    LET ps == {i \in 1..Len(elems) : elems[i].tag = "p" /\ Wanted(field, elems[i].text)} IN
    IF ps = {} THEN Null
    ELSE StrVal(strip(elems[CHOOSE k \in ps : \A m \in ps : k <= m].text))

\* re.compile(r'\$\d+').search(text)
HasDollarNumber(s) ==
    \E i \in 1..Len(s) : s[i] = "$" /\ i + 1 <= Len(s) /\ IsDigit(s[i + 1])

\* ExtractPrice as it would be if the extractor took a price without a
\* decimal part too
ExtractPriceAnyNumber(card) ==
    LET elems == card.elems
        priced == {i \in 1..Len(elems) :
                     elems[i].tag \in {"span", "p"} /\ HasDollarNumber(elems[i].text)}
    IN  IF card.title.s = PriceUnavailable
           \/ \E i \in 1..Len(elems) : elems[i].text = PriceUnavailable
        THEN StrVal(PriceUnavailable)
        ELSE IF priced # {}
        THEN StrVal(strip(elems[CHOOSE k \in priced : \A m \in priced : k <= m].text))
        ELSE Null

\* the price text of a listing
ExtractPrice(card) ==
    LET elems == card.elems
        priced == {i \in 1..Len(elems) :
                     elems[i].tag \in {"span", "p"} /\ HasDollarDecimal(elems[i].text)}
    IN  IF card.title.s = PriceUnavailable
           \/ \E i \in 1..Len(elems) : elems[i].text = PriceUnavailable
        THEN StrVal(PriceUnavailable)
        ELSE IF priced # {}
        THEN StrVal(strip(elems[CHOOSE k \in priced : \A m \in priced : k <= m].text))
        ELSE Null

\* the record of one listing container that has its details block
ExtractRecord(card, stamp) ==
    RawRecord(IF isna(card.title) THEN StrVal(UnknownProduct)
                  ELSE StrVal(strip(card.title.s)),
                  ExtractPrice(card),
                  FirstParagraph(card.elems, "Rating"),
                  FirstParagraph(card.elems, "Colors"),
                  FirstParagraph(card.elems, "Size"),
                  FirstParagraph(card.elems, "Gender"),
                  stamp)

\* ExtractCards as it would be if a malformed listing ended the page
RECURSIVE ExtractCardsStopsAtMalformed(_, _)
ExtractCardsStopsAtMalformed(cards, stamp) ==
    IF cards = <<>> THEN <<>>
    ELSE IF ~cards[1].details \/ cards[1].faults THEN <<>>
    ELSE <<ExtractRecord(cards[1], stamp)>>
         \o ExtractCardsStopsAtMalformed(Tail(cards), stamp)

\* the records scrape_page returns for the containers of a fetched page:
\* a container without details block is passed over (lines 36-38), and so
\* is one whose reading raises (lines 98-100)
RECURSIVE ExtractCards(_, _)
ExtractCards(cards, stamp) ==
    IF cards = <<>> THEN <<>>
    ELSE IF ~cards[1].details \/ cards[1].faults
    THEN ExtractCards(Tail(cards), stamp)
    ELSE <<ExtractRecord(cards[1], stamp)>> \o ExtractCards(Tail(cards), stamp)

\* get_next_page_url: <<>> stands for None
get_next_page_url(url, page) ==
    LET as == page.anchors
        ns == {i \in 1..Len(as) : as[i].cls /\ as[i].text = "Next"}
    IN  IF ns = {} THEN <<>>
        ELSE LET a == as[CHOOSE k \in ns : \A m \in ns : k <= m] IN
             IF a.href = <<>> THEN <<>>
             ELSE IF a.href[1] = "" THEN <<url[1], a.href[2]>>
             ELSE a.href

\* pd.DataFrame(list of records)
DataFrame(recs) == IF recs = <<>> THEN EmptyFrame ELSE Frame(AllCols, Indexed(recs))

RECURSIVE Concat(_)
Concat(seqs) == IF seqs = <<>> THEN <<>> ELSE seqs[1] \o Concat(Tail(seqs))

-----------------------------------------------------------------------------
(* State *)

VARIABLES
    \* scrape_main
    max_pages,      \* the page budget
    current_url,    \* URL of the page being visited
    current_page,   \* 1-based index of the page being visited
    all_products,   \* records accumulated so far
    soup,           \* the page parsed from scrape_main's own response
    product_containers, \* the listing containers scrape_page last found
    wpc,            \* control point of scrape_main
    raw_data,       \* the table scrape_main returned
    clock,          \* wall-clock seconds
    \* what the run did, for the properties
    gets,           \* URLs of the GET requests issued, in order
    page_log,       \* the records each visited page yielded, in order
    fetch_failed,   \* page index and request count at the first failed GET
    \* transform_data
    df,             \* the argument
    df_clean,       \* the working copy
    tpc,            \* control point of transform_data
    result,         \* the table transform_data returned
    run,            \* 1, or 2 when transform_data runs on its own output
    first_result,   \* the table the first run returned
    \* load_data
    load_df,        \* the argument
    google_sheet_id,        \* None, "" or an identifier
    postgresql_conn_string, \* None, "" or a connection string
    load_results,   \* the status map being built
    lpc,            \* control point of load_data
    written,        \* what each writer returned, in call order
    \* run_etl_pipeline
    ppc,            \* control point of run_etl_pipeline
    success         \* its return value

walker_vars ==
    <<max_pages, current_url, current_page, all_products, soup,
      product_containers, wpc, raw_data, clock, gets, page_log, fetch_failed>>
transform_vars == <<df, df_clean, tpc, result, run, first_result>>
load_vars ==
    <<load_df, google_sheet_id, postgresql_conn_string, load_results, lpc, written>>
pipeline_vars == <<ppc, success>>
vars == <<walker_vars, transform_vars, load_vars, pipeline_vars>>

\* Python None as a parameter value
NoParam == "None"
\* the values of a connection parameter
ParamValues == {NoParam, "", "configured"}
\* a destination is enabled when its parameter is truthy
Truthy(param) == param # NoParam /\ param # ""

\* a status of the map: True, False, None, or no entry yet
NoStatus == "no entry"
NoResults == [csv |-> NoStatus, google_sheets |-> NoStatus, postgresql |-> NoStatus]
Status(ok) == IF ok THEN "True" ELSE "False"

NoPage == Page(<<>>, <<>>)
NoFailure == [page |-> 0, gets |-> 0]

WalkerIdle ==
    /\ max_pages = 0
    /\ current_url = BaseUrl
    /\ current_page = 1
    /\ all_products = <<>>
    /\ soup = NoPage
    /\ product_containers = <<>>
    /\ wpc = "idle"
    /\ raw_data = NoneFrame
    /\ clock = 0
    /\ gets = <<>>
    /\ page_log = <<>>
    /\ fetch_failed = NoFailure

LoadIdle(sheet, conn) ==
    /\ load_df = NoneFrame
    /\ google_sheet_id = sheet
    /\ postgresql_conn_string = conn
    /\ load_results = NoResults
    /\ lpc = "idle"
    /\ written = <<>>

PipelineIdle ==
    /\ ppc = "idle"
    /\ success = NoStatus

TransformIdle ==
    /\ df = NoneFrame
    /\ df_clean = NoneFrame
    /\ tpc = "idle"
    /\ result = NoneFrame
    /\ run = 1
    /\ first_result = NoneFrame

-----------------------------------------------------------------------------
(* scrape_main *)

\* lines 147-152: the state at the first loop test
WalkerStart(budget) ==
    /\ max_pages = budget
    /\ current_url = BaseUrl
    /\ current_page = 1
    /\ all_products = <<>>
    /\ soup = NoPage
    /\ product_containers = <<>>
    /\ wpc = "while"
    /\ raw_data = NoneFrame
    /\ clock = 0
    /\ gets = <<>>
    /\ page_log = <<>>
    /\ fetch_failed = NoFailure

\* LoopTest as it would be if the loop admitted one page beyond the budget
LoopTestOneMore ==
    /\ wpc = "while"
    /\ wpc' = IF current_page <= max_pages + 1 THEN "get" ELSE "return"
    /\ UNCHANGED <<max_pages, current_url, current_page, all_products, soup,
                   raw_data, clock, gets, page_log, fetch_failed>>
    /\ UNCHANGED product_containers
    /\ UNCHANGED <<transform_vars, load_vars, pipeline_vars>>

\* line 154: while current_page <= max_pages
LoopTest ==
    /\ wpc = "while"
    /\ wpc' = IF current_page <= max_pages THEN "get" ELSE "return"
    /\ UNCHANGED <<max_pages, current_url, current_page, all_products, soup,
                   raw_data, clock, gets, page_log, fetch_failed>>
    /\ UNCHANGED product_containers
    /\ UNCHANGED <<transform_vars, load_vars, pipeline_vars>>

\* after a failed GET: the first failure of the run is remembered
NoteFailure ==
    IF fetch_failed = NoFailure
    THEN [page |-> current_page, gets |-> Len(gets) + 1]
    ELSE fetch_failed

\* lines 159-161, a successful response
FetchOk ==
    /\ wpc = "get"
    /\ \E page \in SitePages : soup' = page
    /\ gets' = Append(gets, current_url)
    /\ wpc' = "scrape_page"
    /\ UNCHANGED <<max_pages, current_url, current_page, all_products, raw_data,
                   clock, page_log, fetch_failed>>
    /\ UNCHANGED product_containers
    /\ UNCHANGED <<transform_vars, load_vars, pipeline_vars>>

\* FetchFails as it would be if a failed fetch discarded the run's records
FetchFailsDropsAll ==
    /\ wpc = "get"
    /\ gets' = Append(gets, current_url)
    /\ fetch_failed' = NoteFailure
    /\ all_products' = <<>>
    /\ wpc' = "return"
    /\ UNCHANGED <<max_pages, current_url, current_page, soup, raw_data, clock, page_log>>
    /\ UNCHANGED product_containers
    /\ UNCHANGED <<transform_vars, load_vars, pipeline_vars>>

\* lines 159-160 and 186-188: the GET or raise_for_status raises a
\* RequestException, the loop is left
FetchFails ==
    /\ wpc = "get"
    /\ gets' = Append(gets, current_url)
    /\ fetch_failed' = NoteFailure
    /\ wpc' = "return"
    /\ UNCHANGED <<max_pages, current_url, current_page, all_products, soup,
                   raw_data, clock, page_log>>
    /\ UNCHANGED product_containers
    /\ UNCHANGED <<transform_vars, load_vars, pipeline_vars>>

\* lines 166-171 for the records scrape_page returned
TakeProducts(page_products) ==
    IF page_products = <<>>
    THEN /\ wpc' = "return"
         /\ UNCHANGED <<all_products, page_log>>
    ELSE /\ all_products' = all_products \o page_products
         /\ page_log' = Append(page_log, page_products)
         /\ wpc' = "next"

\* ScrapePageOk as it would be if scrape_page read the response scrape_main
\* already has
ScrapePageOkFromFirstResponse ==
    /\ wpc = "scrape_page"
    /\ product_containers' = soup.cards
    /\ TakeProducts(ExtractCards(soup.cards, strftime(clock)))
    /\ UNCHANGED <<max_pages, current_url, current_page, soup, raw_data, clock,
                   gets, fetch_failed>>
    /\ UNCHANGED <<transform_vars, load_vars, pipeline_vars>>

\* line 164 with scrape_page lines 20-102: the page is requested again and
\* its listings extracted; then lines 166-171
ScrapePageOk ==
    /\ wpc = "scrape_page"
    /\ gets' = Append(gets, current_url)
    /\ \E page \in SitePages :
          /\ product_containers' = page.cards
          /\ TakeProducts(ExtractCards(page.cards, strftime(clock)))
    /\ UNCHANGED <<max_pages, current_url, current_page, soup, raw_data, clock,
                   fetch_failed>>
    /\ UNCHANGED <<transform_vars, load_vars, pipeline_vars>>

\* line 164 with scrape_page lines 20-25 and 104-106: the second request
\* fails, scrape_page returns []; then lines 166-168
ScrapePageFails ==
    /\ wpc = "scrape_page"
    /\ gets' = Append(gets, current_url)
    /\ fetch_failed' = NoteFailure
    /\ TakeProducts(<<>>)
    /\ UNCHANGED <<max_pages, current_url, current_page, soup, raw_data, clock>>
    /\ UNCHANGED product_containers
    /\ UNCHANGED <<transform_vars, load_vars, pipeline_vars>>

\* lines 174-184: the next link, the page counter, the random delay
Advance ==
    /\ wpc = "next"
    /\ LET next_url == get_next_page_url(current_url, soup) IN
       IF next_url = <<>>
       THEN /\ wpc' = "return"
            /\ UNCHANGED <<current_url, current_page, clock>>
       ELSE /\ current_url' = next_url
            /\ current_page' = current_page + 1
            /\ \E delay \in 1..3 : clock' = clock + delay
            /\ wpc' = "while"
    /\ UNCHANGED <<max_pages, all_products, soup, raw_data, gets, page_log,
                   fetch_failed>>
    /\ UNCHANGED product_containers
    /\ UNCHANGED <<transform_vars, load_vars, pipeline_vars>>

\* lines 198-201
WalkerReturn ==
    /\ wpc = "return"
    /\ raw_data' = DataFrame(all_products)
    /\ wpc' = "done"
    /\ UNCHANGED <<max_pages, current_url, current_page, all_products, soup,
                   clock, gets, page_log, fetch_failed>>
    /\ UNCHANGED product_containers
    /\ UNCHANGED <<transform_vars, load_vars, pipeline_vars>>

WalkerNext ==
    \/ LoopTest
    \/ FetchOk
    \/ FetchFails
    \/ ScrapePageOk
    \/ ScrapePageFails
    \/ Advance
    \/ WalkerReturn

InitWalker ==
    /\ \E budget \in 1..MaxPagesBound : WalkerStart(budget)
    /\ TransformIdle
    /\ LoadIdle(NoParam, NoParam)
    /\ PipelineIdle

SpecWalker == InitWalker /\ [][WalkerNext]_vars

\* scrape_main runs to its end: every request is answered, with a response
\* or with an error, and every statement is followed by the next one
SpecWalkerFair == SpecWalker /\ WF_vars(WalkerNext)

-----------------------------------------------------------------------------
(* transform_data *)

\* TransformFault as it would be if the handler returned the working copy
TransformFaultKeepsPartial ==
    /\ result' = df_clean
    /\ tpc' = "done"
    /\ UNCHANGED <<df, df_clean, run, first_result>>

\* lines 191-194: any exception ends the call with pd.DataFrame(); at the
\* control point "raised" an exception would have left transform_data
TransformFault ==
    /\ result' = EmptyFrame
    /\ tpc' = "done"
    /\ UNCHANGED <<df, df_clean, run, first_result>>

\* lines 143-148: the guard on the input, then the copy
CheckInput ==
    /\ tpc = "start"
    /\ IF df.kind = "none" \/ IsEmpty(df)
       THEN /\ result' = EmptyFrame
            /\ tpc' = "done"
            /\ UNCHANGED df_clean
       ELSE /\ df_clean' = df
            /\ tpc' = "Price"
            /\ UNCHANGED result
    /\ UNCHANGED <<df, run, first_result>>
    /\ UNCHANGED <<walker_vars, load_vars, pipeline_vars>>

\* CleanColumn as it would be if df_clean were the input itself, not a copy
CleanColumnInPlace(col, next) ==
    /\ tpc = col
    /\ IF col \notin df_clean.cols
       THEN TransformFault
       ELSE /\ df_clean' = [df_clean EXCEPT !.rows = ApplyColumn(@, col)]
            /\ df' = [df EXCEPT !.rows = ApplyColumn(@, col)]
            /\ tpc' = next
            /\ UNCHANGED <<result, run, first_result>>
    /\ UNCHANGED <<walker_vars, load_vars, pipeline_vars>>

\* df_clean[col] = df_clean[col].apply(f); the column lookup raises KeyError
\* when the frame lacks the column
CleanColumn(col, next) ==
    /\ tpc = col
    /\ IF col \notin df_clean.cols
       THEN TransformFault
       ELSE /\ df_clean' = [df_clean EXCEPT !.rows = ApplyColumn(@, col)]
            /\ tpc' = next
            /\ UNCHANGED <<df, result, run, first_result>>
    /\ UNCHANGED <<walker_vars, load_vars, pipeline_vars>>

\* line 154
CleanPrice == CleanColumn("Price", "Rating")
\* line 157
CleanRating == CleanColumn("Rating", "Colors")
\* line 160
CleanColors == CleanColumn("Colors", "Size")
\* line 163
CleanSize == CleanColumn("Size", "Gender")
\* line 166
CleanGender == CleanColumn("Gender", "filter")

\* line 170
RemoveUnknown ==
    /\ tpc = "filter"
    /\ IF "Title" \notin df_clean.cols
       THEN TransformFault
       ELSE /\ df_clean' = [df_clean EXCEPT !.rows = SelectRows(@, {i \in 1..Len(@) : NotUnknownProduct(@[i])})]
            /\ tpc' = "dropna"
            /\ UNCHANGED <<df, result, run, first_result>>
    /\ UNCHANGED <<walker_vars, load_vars, pipeline_vars>>

\* line 174
DropNull ==
    /\ tpc = "dropna"
    /\ IF ~(BusinessCols \subseteq df_clean.cols)
       THEN TransformFault
       ELSE /\ df_clean' = [df_clean EXCEPT !.rows = dropna(@)]
            /\ tpc' = "dedup"
            /\ UNCHANGED <<df, result, run, first_result>>
    /\ UNCHANGED <<walker_vars, load_vars, pipeline_vars>>

\* line 178
DropDuplicates ==
    /\ tpc = "dedup"
    /\ IF ~(BusinessCols \subseteq df_clean.cols)
       THEN TransformFault
       ELSE /\ df_clean' = [df_clean EXCEPT !.rows = drop_duplicates(@)]
            /\ tpc' = "astype"
            /\ UNCHANGED <<df, result, run, first_result>>
    /\ UNCHANGED <<walker_vars, load_vars, pipeline_vars>>

\* lines 182-184: the cells already hold floats and ints, the conversion
\* changes none; astype(int) raises on an int beyond 64 bits
ConvertTypes ==
    /\ tpc = "astype"
    /\ IF AstypeFaults(df.rows, df_clean.rows)
       THEN TransformFault
       ELSE /\ tpc' = "return"
            /\ UNCHANGED <<df, df_clean, result, run, first_result>>
    /\ UNCHANGED <<walker_vars, load_vars, pipeline_vars>>

\* line 189
TransformReturn ==
    /\ tpc = "return"
    /\ result' = df_clean
    /\ tpc' = "done"
    /\ UNCHANGED <<df, df_clean, run, first_result>>
    /\ UNCHANGED <<walker_vars, load_vars, pipeline_vars>>

TransformNext ==
    \/ CheckInput
    \/ CleanPrice
    \/ CleanRating
    \/ CleanColors
    \/ CleanSize
    \/ CleanGender
    \/ RemoveUnknown
    \/ DropNull
    \/ DropDuplicates
    \/ ConvertTypes
    \/ TransformReturn

\* transform_data called on the table its first call returned
Reapply ==
    /\ tpc = "done"
    /\ run = 1
    /\ first_result' = result
    /\ df' = result
    /\ df_clean' = NoneFrame
    /\ result' = NoneFrame
    /\ run' = 2
    /\ tpc' = "start"
    /\ UNCHANGED <<walker_vars, load_vars, pipeline_vars>>

InitTransform ==
    /\ WalkerIdle
    /\ LoadIdle(NoParam, NoParam)
    /\ PipelineIdle
    /\ df \in RawTables
    /\ df_clean = NoneFrame
    /\ tpc = "start"
    /\ result = NoneFrame
    /\ run = 1
    /\ first_result = NoneFrame

NextTransform == TransformNext \/ Reapply

SpecTransform == InitTransform /\ [][NextTransform]_vars

-----------------------------------------------------------------------------
(* load_data and the writers *)

\* the largest page budget run_etl_pipeline is started with
MaxPipelinePages == 1

\* a writer was called and returned ok
Wrote(dest, ok) == Append(written, [dest |-> dest, ok |-> ok])

\* LoadCheck as it would be if a table without rows marked only the file False
LoadCheckEmptyMarksFileOnly ==
    /\ lpc = "start"
    /\ IF load_df.kind = "none" \/ IsEmpty(load_df)
       THEN /\ load_results' = [csv |-> "False", google_sheets |-> "None",
                                postgresql |-> "None"]
            /\ lpc' = "done"
       ELSE /\ load_results' = NoResults
            /\ lpc' = "csv"
    /\ UNCHANGED <<load_df, google_sheet_id, postgresql_conn_string, written>>
    /\ UNCHANGED <<walker_vars, transform_vars, pipeline_vars>>

\* lines 133-137: the guard on the table
LoadCheck ==
    /\ lpc = "start"
    /\ IF load_df.kind = "none" \/ IsEmpty(load_df)
       THEN /\ load_results' = [csv |-> "False", google_sheets |-> "False",
                                postgresql |-> "False"]
            /\ lpc' = "done"
       ELSE /\ load_results' = NoResults
            /\ lpc' = "csv"
    /\ UNCHANGED <<load_df, google_sheet_id, postgresql_conn_string, written>>
    /\ UNCHANGED <<walker_vars, transform_vars, pipeline_vars>>

\* SaveCsv as it would be if a failed write of the file ended the dispatch
SaveCsvAborts ==
    /\ lpc = "csv"
    /\ \E raises \in BOOLEAN :
          /\ load_results' = [load_results EXCEPT !.csv = Status(~raises)]
          /\ written' = Wrote("csv", ~raises)
          /\ lpc' = IF raises THEN "done" ELSE "google_sheets"
    /\ UNCHANGED <<load_df, google_sheet_id, postgresql_conn_string>>
    /\ UNCHANGED <<walker_vars, transform_vars, pipeline_vars>>

\* line 140 with save_to_csv, lines 19-31: True, or False when creating
\* the directory or writing the file raises
SaveCsv ==
    /\ lpc = "csv"
    /\ \E raises \in BOOLEAN :
          /\ load_results' = [load_results EXCEPT !.csv = Status(~raises)]
          /\ written' = Wrote("csv", ~raises)
    /\ lpc' = "google_sheets"
    /\ UNCHANGED <<load_df, google_sheet_id, postgresql_conn_string>>
    /\ UNCHANGED <<walker_vars, transform_vars, pipeline_vars>>

\* SaveGoogleSheets as it would be if a skipped destination were marked False
SaveGoogleSheetsSkippedFalse ==
    /\ lpc = "google_sheets"
    /\ IF Truthy(google_sheet_id)
       THEN \E credentials \in BOOLEAN, raises \in BOOLEAN :
               /\ load_results' =
                     [load_results EXCEPT !.google_sheets = Status(credentials /\ ~raises)]
               /\ written' = Wrote("google_sheets", credentials /\ ~raises)
       ELSE /\ load_results' = [load_results EXCEPT !.google_sheets = "False"]
            /\ UNCHANGED written
    /\ lpc' = "postgresql"
    /\ UNCHANGED <<load_df, google_sheet_id, postgresql_conn_string>>
    /\ UNCHANGED <<walker_vars, transform_vars, pipeline_vars>>

\* lines 143-147 with save_to_google_sheets, lines 45-93: False when the
\* credentials file is missing or a call of the API raises, True otherwise
SaveGoogleSheets ==
    /\ lpc = "google_sheets"
    /\ IF Truthy(google_sheet_id)
       THEN \E credentials \in BOOLEAN, raises \in BOOLEAN :
               /\ load_results' =
                     [load_results EXCEPT !.google_sheets = Status(credentials /\ ~raises)]
               /\ written' = Wrote("google_sheets", credentials /\ ~raises)
       ELSE /\ load_results' = [load_results EXCEPT !.google_sheets = "None"]
            /\ UNCHANGED written
    /\ lpc' = "postgresql"
    /\ UNCHANGED <<load_df, google_sheet_id, postgresql_conn_string>>
    /\ UNCHANGED <<walker_vars, transform_vars, pipeline_vars>>

\* lines 150-156 with save_to_postgresql, lines 106-118: True, or False
\* when the engine or the write raises; then the map is returned
SavePostgresql ==
    /\ lpc = "postgresql"
    /\ IF Truthy(postgresql_conn_string)
       THEN \E raises \in BOOLEAN :
               /\ load_results' = [load_results EXCEPT !.postgresql = Status(~raises)]
               /\ written' = Wrote("postgresql", ~raises)
       ELSE /\ load_results' = [load_results EXCEPT !.postgresql = "None"]
            /\ UNCHANGED written
    /\ lpc' = "done"
    /\ UNCHANGED <<load_df, google_sheet_id, postgresql_conn_string>>
    /\ UNCHANGED <<walker_vars, transform_vars, pipeline_vars>>

LoadNext ==
    \/ LoadCheck
    \/ SaveCsv
    \/ SaveGoogleSheets
    \/ SavePostgresql

\* the clean rows of a raw table
CleanRows(rows) ==
    ApplyColumn(ApplyColumn(ApplyColumn(ApplyColumn(ApplyColumn(rows,
        "Price"), "Rating"), "Colors"), "Size"), "Gender")

\* the tables load_data is exercised on
LoadTables ==
    {NoneFrame, EmptyFrame, Frame(AllCols, <<>>),
     Frame(AllCols, CleanRows(Indexed(<<GoodRecord>>))),
     Frame(AllCols \ {"timestamp"}, CleanRows(Indexed(<<GoodRecord>>))),
     Frame(AllCols, CleanRows(Indexed(<<GoodRecord,
         RawRecord(TitleB, Price50, Rating3, Colors3, SizeM, GenderUnisex, Stamp1)>>)))}

InitLoad ==
    /\ WalkerIdle
    /\ TransformIdle
    /\ PipelineIdle
    /\ load_df \in LoadTables
    /\ google_sheet_id \in ParamValues
    /\ postgresql_conn_string \in ParamValues
    /\ load_results = NoResults
    /\ lpc = "start"
    /\ written = <<>>

SpecLoad == InitLoad /\ [][LoadNext]_vars

-----------------------------------------------------------------------------
(* run_etl_pipeline *)

\* lines 83-87: any exception ends the run with False
PipelineFault ==
    /\ success' = "False"
    /\ ppc' = "done"

\* lines 39-49: the guard on the raw table, the debugging copy of it (whose
\* write may raise), then the call of transform_data
AfterExtract ==
    /\ ppc = "extract"
    /\ wpc = "done"
    /\ IF raw_data.kind = "none" \/ IsEmpty(raw_data)
       THEN /\ success' = "False"
            /\ ppc' = "done"
            /\ UNCHANGED transform_vars
       ELSE \E raises \in BOOLEAN :
               IF raises
               THEN PipelineFault /\ UNCHANGED transform_vars
               ELSE /\ df' = raw_data
                    /\ tpc' = "start"
                    /\ ppc' = "transform"
                    /\ UNCHANGED <<df_clean, result, run, first_result, success>>
    /\ UNCHANGED <<walker_vars, load_vars>>

\* AfterTransform as it would be if an empty clean table were loaded too
AfterTransformLoadsEmpty ==
    /\ ppc = "transform"
    /\ tpc = "done"
    /\ \E raises \in BOOLEAN :
          IF raises
          THEN PipelineFault /\ UNCHANGED load_vars
          ELSE /\ load_df' = result
               /\ lpc' = "start"
               /\ ppc' = "load"
               /\ UNCHANGED <<google_sheet_id, postgresql_conn_string,
                              load_results, written, success>>
    /\ UNCHANGED <<walker_vars, transform_vars>>

\* lines 50-65: the guard on the clean table, the debugging copy of it
\* (whose write may raise), then the call of load_data
AfterTransform ==
    /\ ppc = "transform"
    /\ tpc = "done"
    /\ IF IsEmpty(result)
       THEN /\ success' = "False"
            /\ ppc' = "done"
            /\ UNCHANGED load_vars
       ELSE \E raises \in BOOLEAN :
               IF raises
               THEN PipelineFault /\ UNCHANGED load_vars
               ELSE /\ load_df' = result
                    /\ lpc' = "start"
                    /\ ppc' = "load"
                    /\ UNCHANGED <<google_sheet_id, postgresql_conn_string,
                                   load_results, written, success>>
    /\ UNCHANGED <<walker_vars, transform_vars>>

\* AllWritten as it would be if a skipped destination counted as a failure
AllWrittenStrict(results) == \A dest \in DOMAIN results : results[dest] = "True"

\* line 81: all(status for status in load_results.values() if status is not None)
AllWritten(results) ==
    \A dest \in DOMAIN results : results[dest] # "None" => results[dest] = "True"

\* lines 69-81
PipelineReturn ==
    /\ ppc = "load"
    /\ lpc = "done"
    /\ success' = Status(AllWritten(load_results))
    /\ ppc' = "done"
    /\ UNCHANGED <<walker_vars, transform_vars, load_vars>>

PipelineNext ==
    \/ AfterExtract
    \/ AfterTransform
    \/ PipelineReturn

\* lines 32-38: run_etl_pipeline has called scrape_main(max_pages=max_pages)
Init ==
    /\ \E budget \in 0..MaxPipelinePages : WalkerStart(budget)
    /\ TransformIdle
    /\ \E sheet \in ParamValues, conn \in ParamValues : LoadIdle(sheet, conn)
    /\ ppc = "extract"
    /\ success = NoStatus

Next == WalkerNext \/ TransformNext \/ LoadNext \/ PipelineNext

Spec == Init /\ [][Next]_vars

-----------------------------------------------------------------------------
(* Properties of scrape_main *)

WalkerDone == wpc = "done"

\* C1: a run of scrape_main with max_pages = 1 issues exactly one GET in
\* total, whether or not the page has a "Next" link.
C1_OneFetchForOnePage ==
    (WalkerDone /\ max_pages = 1) => Len(gets) = 1

\* C2: when the fetch of page n fails, no further request is issued and the
\* table returned holds exactly the records of pages 1..n-1 in scrape
\* order: none for n = 1.
C2_FetchFailureKeepsEarlierPages ==
    fetch_failed # NoFailure =>
        /\ wpc \in {"return", "done"}
        /\ Len(gets) = fetch_failed.gets
        /\ Len(page_log) = fetch_failed.page - 1
        /\ all_products = Concat(page_log)
        /\ WalkerDone => /\ raw_data = DataFrame(Concat(page_log))
                         /\ fetch_failed.page = 1 => raw_data.rows = <<>>

\* a run whose second page failed returned the records of its first page
C2_Witness ==
    /\ WalkerDone
    /\ fetch_failed.page = 2
    /\ Len(raw_data.rows) >= 1

-----------------------------------------------------------------------------
(* Properties of transform_data *)

\* the first call has returned
FirstDone == run = 1 /\ tpc = "done"

\* the input has the six business columns
HasBusinessCols == df.kind = "frame" /\ BusinessCols \subseteq df.cols

\* a raw record with the five normalizers applied
Normalized(row) ==
    [row EXCEPT !.Price = clean_price(@), !.Rating = clean_rating(@),
                !.Colors = clean_colors(@), !.Size = clean_size(@),
                !.Gender = clean_gender(@)]

\* the six business fields of a record
SixFields(row) == [c \in BusinessCols |-> row[c]]

\* none of the six business fields holds None
AllSixPresent(row) == \A c \in BusinessCols : row[c].t # "null"

\* a raw record whose six business fields all normalize to a value and
\* whose title is not the sentinel
FullyValid(row) ==
    /\ AllSixPresent(Normalized(row))
    /\ row.Title # StrVal(UnknownProduct)

\* the index labels of the rows returned
Returned == {result.rows[k].idx : k \in 1..Len(result.rows)}

\* the raw records equal to the record at position i on the six business fields
SameListing(i) ==
    {j \in 1..Len(df.rows) : SixFields(df.rows[j]) = SixFields(df.rows[i])}

\* the raw records that normalize to the six values of the record at position i
SameCleanValues(i) ==
    {j \in 1..Len(df.rows) :
        SixFields(Normalized(df.rows[j])) = SixFields(Normalized(df.rows[i]))}

NoTwoRowsEqual ==
    \A a, b \in 1..Len(result.rows) :
        a # b => SixFields(result.rows[a]) # SixFields(result.rows[b])

\* how many of the raw records at the positions of group were returned
ReturnedOf(group) == Cardinality({j \in group : df.rows[j].idx \in Returned})

\* the call ended in the except clause of lines 191-194 although the input
\* was a non-empty table
Faulted == FirstDone /\ ~IsEmpty(df) /\ result = EmptyFrame

\* C3 as stated: no two rows returned are equal on the six business fields,
\* and of the fully valid raw records that are equal on those fields and
\* differ only in timestamp exactly one is returned.
C3_DedupLaw ==
    (FirstDone /\ HasBusinessCols) =>
        /\ NoTwoRowsEqual
        /\ \A i, j \in 1..Len(df.rows) :
              (/\ FullyValid(df.rows[i])
               /\ j \in SameListing(i)
               /\ df.rows[j].timestamp # df.rows[i].timestamp)
              => ReturnedOf(SameListing(i)) = 1

\* C3 as amended: no two rows returned are equal on the six business
\* fields, and, unless an internal step faulted and the empty table was
\* returned, of the raw records that normalize to the same six values as a
\* fully valid record (those equal to it on the six raw fields among them)
\* exactly one is returned.
C3_DedupLawOnCleanValues ==
    (FirstDone /\ HasBusinessCols) =>
        /\ NoTwoRowsEqual
        /\ ~Faulted =>
              \A i \in 1..Len(df.rows) :
                  FullyValid(df.rows[i]) =>
                      /\ SameListing(i) \subseteq SameCleanValues(i)
                      /\ ReturnedOf(SameCleanValues(i)) = 1

\* a valid listing scraped twice, at different times, came back once
C3_Witness ==
    /\ FirstDone
    /\ Len(df.rows) = 2
    /\ FullyValid(df.rows[1])
    /\ SixFields(df.rows[1]) = SixFields(df.rows[2])
    /\ df.rows[1].timestamp # df.rows[2].timestamp
    /\ Len(result.rows) = 1

\* C4: a raw record with a null title or a business field that normalizes
\* to null is not returned, and every row returned has a value in all six
\* business fields.
C4_MandatoryFields ==
    FirstDone =>
        /\ \A k \in 1..Len(result.rows) : AllSixPresent(result.rows[k])
        /\ HasBusinessCols =>
              \A i \in 1..Len(df.rows) :
                  ~AllSixPresent(Normalized(df.rows[i])) => df.rows[i].idx \notin Returned

\* a table with an unparsable record and a valid one: only the valid one
\* came back
C4_Witness ==
    /\ FirstDone
    /\ HasBusinessCols
    /\ Len(df.rows) = 2
    /\ ~AllSixPresent(Normalized(df.rows[1]))
    /\ Returned = {1}

\* C5: every row returned has Price > 0, 0.0 <= Rating <= 5.0 and an
\* integer Colors >= 1.
C5_NumericRanges ==
    FirstDone =>
        \A k \in 1..Len(result.rows) :
            LET row == result.rows[k] IN
            /\ row.Price.t = "float" /\ row.Price.n > 0
            /\ row.Rating.t = "float" /\ row.Rating.n >= 0 /\ row.Rating.n <= 500
            /\ row.Colors.t = "int" /\ ~row.Colors.big /\ row.Colors.n >= 1

GenderValues ==
    {<<"M", "e", "n">>, <<"W", "o", "m", "e", "n">>, <<"U", "n", "i", "s", "e", "x">>}

\* C6: every row returned has a non-empty Title other than "Unknown
\* Product", a non-empty Size and a Gender among Men, Women, Unisex.
C6_TextFields ==
    FirstDone =>
        \A k \in 1..Len(result.rows) :
            LET row == result.rows[k] IN
            /\ row.Title.t = "str" /\ row.Title.s # <<>> /\ row.Title.s # UnknownProduct
            /\ row.Size.t = "str" /\ row.Size.s # <<>>
            /\ row.Gender.t = "str" /\ row.Gender.s \in GenderValues

\* C7: transform_data applied to its own output returns the same rows.
C7_Idempotent ==
    (run = 2 /\ tpc = "done") => result.rows = first_result.rows

\* the positions of the raw records a complete transformation returns: the
\* fully valid ones, the first of each group equal after normalization
CleanPositions ==
    {i \in 1..Len(df.rows) :
        /\ FullyValid(df.rows[i])
        /\ \A j \in 1..(i - 1) :
              FullyValid(df.rows[j]) =>
                  SixFields(Normalized(df.rows[j])) # SixFields(Normalized(df.rows[i]))}

\* the complete clean table of the input
CleanTable ==
    Frame(df.cols,
          KeepPositions([i \in 1..Len(df.rows) |-> Normalized(df.rows[i])], CleanPositions, 1))

\* an internal step of the call raises: a business column is missing, or
\* the Colors of a row that survives is beyond 64 bits in an object column
StepFaults ==
    \/ ~(BusinessCols \subseteq df.cols)
    \/ /\ \E i \in CleanPositions : clean_colors(df.rows[i].Colors).big
       /\ ObjectColumn(CleanedColors(df.rows))

\* C8: transform_data never raises and returns the empty table for a None
\* or empty input and when an internal step faults, the complete clean
\* table otherwise: never a part of it.
C8_FailsClosed ==
    /\ tpc # "raised"
    /\ FirstDone =>
          IF df.kind = "none" \/ IsEmpty(df) \/ StepFaults
          THEN result = EmptyFrame
          ELSE result = CleanTable

\* a call on a table that lacks a column half-way through the cleaning
\* returned the empty table
C8_Witness ==
    /\ FirstDone
    /\ ~IsEmpty(df)
    /\ "Gender" \notin df.cols
    /\ FullyValid([df.rows[1] EXCEPT !.Gender = GenderMen])
    /\ result = EmptyFrame

-----------------------------------------------------------------------------
(* The page budget *)

\* the pages a request has been issued for
Visited == (Len(gets) + 1) \div 2

\* C15: for every positive max_pages and whatever the site answers, "Next"
\* links without end included, scrape_main comes to its end and returns the
\* records accumulated, having visited at most max_pages pages; the page
\* index starts at 1 and grows by exactly 1 for each page visited.
C15_StopsWithinBudget ==
    /\ [](/\ Visited <= max_pages
          /\ current_page >= 1
          /\ current_page \in {Visited, Visited + 1}
          /\ wpc \in {"scrape_page", "next"} => current_page = Visited)
    /\ [][current_page' # current_page =>
            (wpc = "next" /\ current_page' = current_page + 1)]_vars
    /\ <>(WalkerDone /\ raw_data = DataFrame(all_products))

\* a run whose every page had a "Next" link ended when the budget was used
C15_Witness ==
    /\ WalkerDone
    /\ max_pages >= 2
    /\ current_page = max_pages + 1
    /\ Len(page_log) = max_pages
    /\ fetch_failed = NoFailure

\* C16: the Walker checks the page budget before it delays: the clock
\* moves only when another page is then fetched, and a run that stops
\* because the next page is beyond max_pages stops without the delay.
C16_DelayOnlyBeforeFetch ==
    [][clock' # clock => current_page' <= max_pages]_vars

-----------------------------------------------------------------------------
(* The "Next" link and the listings of a page *)

\* the target of the first anchor whose text is "Next", resolved against
\* the scheme and host of url when it is root-relative; <<>> without one
ClaimedNext(url, page) ==
    LET as == page.anchors
        ns == {i \in 1..Len(as) : as[i].text = "Next"}
    IN  IF ns = {} THEN <<>>
        ELSE LET a == as[CHOOSE k \in ns : \A m \in ns : k <= m] IN
             IF a.href = <<>> THEN <<>>
             ELSE IF a.href[1] = "" THEN <<url[1], a.href[2]>>
             ELSE a.href

\* C17: the Walker goes on to the target of the first anchor in document
\* order whose text is exactly "Next", a root-relative href prefixed with
\* the scheme and host of the current URL and any other href unchanged;
\* without such an anchor it stops with the records accumulated so far.
C17_FirstNextAnchor ==
    [][wpc = "next" =>
          LET target == ClaimedNext(current_url, soup) IN
          IF target = <<>>
          THEN wpc' = "return" /\ all_products' = all_products
          ELSE current_url' = target]_vars

\* the listing containers that have their details block and are read
\* without a fault, in document order
WellFormed(cards) ==
    KeepPositions(cards, {i \in 1..Len(cards) : cards[i].details /\ ~cards[i].faults}, 1)

\* C18: a malformed listing does not end a page: scrape_page passes over a
\* listing container that lacks its details block or whose extraction
\* faults, and returns one record, in document order, for every other
\* listing container of the page.
C18_MalformedListingSkipped ==
    [][(wpc = "scrape_page" /\ fetch_failed' = fetch_failed) =>
          LET good == WellFormed(product_containers')
              expected == [i \in 1..Len(good) |->
                              ExtractRecord(good[i], strftime(clock))]
          IN  IF expected = <<>>
              THEN page_log' = page_log /\ all_products' = all_products
              ELSE /\ page_log' = Append(page_log, expected)
                   /\ all_products' = all_products \o expected]_vars

\* a page with a listing without details and a listing that faults gave
\* the records of its two other listings
C18_Witness ==
    /\ wpc = "next"
    /\ product_containers = <<CardNoDetails, CardPriceNA, CardFaulty, CardNoTitle>>
    /\ Len(page_log[Len(page_log)]) = 2
    /\ page_log[Len(page_log)][2].Title = StrVal(UnknownProduct)

\* C19: for every page it visits the Walker issues two GET requests to the
\* same URL; the response to the first supplies the "Next" link, the
\* response to the second the records; when the second request fails the
\* page yields no records and the Walker stops as for a page without
\* products, keeping the records of the pages before.
C19_TwoRequestsPerPage ==
    /\ \A k \in 1..Len(gets) : k % 2 = 0 => gets[k] = gets[k - 1]
    /\ wpc = "scrape_page" => Len(gets) % 2 = 1
    /\ wpc \in {"while", "get", "next"} => Len(gets) = 2 * Len(page_log)
    /\ wpc = "next" =>
          page_log[Len(page_log)] = ExtractCards(product_containers, strftime(clock))
    /\ (wpc \in {"while", "get"} /\ gets # <<>>) =>
          current_url = get_next_page_url(gets[Len(gets)], soup)
    /\ (fetch_failed # NoFailure /\ fetch_failed.gets % 2 = 0) =>
          /\ wpc \in {"return", "done"}
          /\ Len(gets) = fetch_failed.gets
          /\ Len(page_log) = fetch_failed.page - 1
          /\ all_products = Concat(page_log)
          /\ WalkerDone => raw_data = DataFrame(Concat(page_log))

\* the second request of the second page failed and the run returned the
\* records of the first page
C19_Witness ==
    /\ WalkerDone
    /\ fetch_failed = [page |-> 2, gets |-> 4]
    /\ gets[3] = gets[4]
    /\ Len(page_log) = 1
    /\ raw_data = DataFrame(page_log[1])

-----------------------------------------------------------------------------
(* The argument of transform_data *)

\* transform_data is between its call and its return
Transforming == tpc \notin {"idle", "done"}

\* C14: transform_data leaves its input table as it was: no step of a call,
\* whether the call returns a clean table or an empty one, changes a field
\* of a raw record of the input or removes one from it.
C14_InputUnchanged == [][Transforming => df' = df]_vars

\* a call returned one converted record of two, and the input still holds
\* both records with their texts
C14_Witness ==
    /\ FirstDone
    /\ Len(df.rows) = 2
    /\ Len(result.rows) = 1
    /\ df.rows[1].Price = Price1050
    /\ df.rows[2].Price = PriceNA
    /\ result.rows[1].Price.t = "float"

-----------------------------------------------------------------------------
(* Properties of clean_price *)

\* the value of a digit string, read digit by digit from the left
RECURSIVE Numeral(_, _)
Numeral(ds, acc) ==
    IF ds = <<>> THEN acc
    ELSE Numeral(Tail(ds),
                 10 * acc + (CHOOSE v \in 0..9 : Digits[v + 1] = Head(ds)))

\* the decimal N.M in hundredths (M of one or two digits; <<>> for $N)
Hundredths(n, m) ==
    100 * Numeral(n, 0)
    + (IF Len(m) = 1 THEN 10 * Numeral(m, 0) ELSE Numeral(m, 0))

\* the Price column has been cleaned and no row removed yet
PriceCleaned ==
    /\ run = 1
    /\ tpc \in {"Rating", "Colors", "Size", "Gender", "filter"}
    /\ "Price" \in df.cols

\* C13: for a price text $N.M or $N, clean_price returns the decimal N.M
\* times 16000 ("$100.00" gives 1600000.0, "$50" gives 800000.0); for null,
\* "Price Unavailable" and "Unavailable" it returns null.
C13_PriceConversion ==
    PriceCleaned =>
        \A i \in 1..Len(df.rows) :
            LET raw == df.rows[i].Price
                out == df_clean.rows[i].Price
            IN  /\ \A n \in WholeParts :
                      /\ raw = StrVal(<<"$">> \o n) =>
                            out = FloatVal(Hundredths(n, <<>>) * 16000)
                      /\ \A m \in FractionParts :
                            raw = StrVal(<<"$">> \o n \o <<".">> \o m) =>
                                out = FloatVal(Hundredths(n, m) * 16000)
                /\ raw = Price10000 => out = FloatVal(160000000)
                /\ raw = Price50 => out = FloatVal(80000000)
                /\ raw \in {Null, PriceNA, PriceUnavailableShort} => out = Null

-----------------------------------------------------------------------------
(* Properties of load_data and run_etl_pipeline *)

\* the destinations the parameters enable; the file is always written
Enabled ==
    {"csv"}
    \cup (IF google_sheet_id \notin {NoParam, ""} THEN {"google_sheets"} ELSE {})
    \cup (IF postgresql_conn_string \notin {NoParam, ""} THEN {"postgresql"} ELSE {})

\* the calls of the writer of dest, as positions of the call log
CallsOf(dest) == {k \in 1..Len(written) : written[k].dest = dest}

\* the writer of dest was called and returned True
WriteSucceeded(dest) == \E k \in CallsOf(dest) : written[k].ok

\* C9: run_etl_pipeline returns True exactly when extraction returned a
\* non-empty table, transformation returned a non-empty table and the
\* write of every enabled destination succeeded; a destination left
\* disabled does not make the run fail.
C9_SuccessIff ==
    ppc = "done" =>
        (success = "True" <=>
            /\ raw_data.kind = "frame" /\ raw_data.rows # <<>>
            /\ result.kind = "frame" /\ result.rows # <<>>
            /\ \A dest \in Enabled : WriteSucceeded(dest))

\* a run with the spreadsheet left disabled and the database enabled
\* succeeded
C9_Witness ==
    /\ ppc = "done"
    /\ success = "True"
    /\ google_sheet_id = NoParam
    /\ postgresql_conn_string = "configured"
    /\ load_results.google_sheets = "None"

\* load_data has returned the map of a non-empty table
LoadedTable == lpc = "done" /\ load_df.kind = "frame" /\ ~IsEmpty(load_df)

\* C10: for a non-empty table the map holds None for every destination
\* whose parameter is absent and, for every enabled destination, the
\* boolean its writer returned; with the file alone configured and written
\* it is {csv: True, google_sheets: None, postgresql: None}.
C10_StatusMap ==
    LoadedTable =>
        /\ google_sheet_id = NoParam => load_results.google_sheets = "None"
        /\ postgresql_conn_string = NoParam => load_results.postgresql = "None"
        /\ \A dest \in Enabled :
              /\ Cardinality(CallsOf(dest)) = 1
              /\ \A k \in CallsOf(dest) :
                    load_results[dest] = (IF written[k].ok THEN "True" ELSE "False")
        /\ (Enabled = {"csv"} /\ WriteSucceeded("csv")) =>
              load_results = [csv |-> "True", google_sheets |-> "None",
                              postgresql |-> "None"]

\* the file alone was configured and written
C10_Witness ==
    /\ LoadedTable
    /\ google_sheet_id = NoParam
    /\ postgresql_conn_string = NoParam
    /\ load_results = [csv |-> "True", google_sheets |-> "None", postgresql |-> "None"]

\* the destinations whose writer load_data has passed at control point pc
Passed(pc) ==
    CASE pc = "google_sheets" -> {"csv"}
      [] pc = "postgresql" -> {"csv", "google_sheets"}
      [] pc = "done" -> {"csv", "google_sheets", "postgresql"}
      [] OTHER -> {}

\* C11: in a dispatch of a non-empty table the file writer and the writer
\* of every other configured destination are each attempted exactly once,
\* whatever the writers before them returned; a failed write is recorded
\* as False and the dispatch goes on to the destinations after it.
C11_EveryWriterAttempted ==
    (load_df.kind = "frame" /\ ~IsEmpty(load_df)) =>
        /\ \A dest \in Passed(lpc) :
              Cardinality(CallsOf(dest)) = (IF dest \in Enabled THEN 1 ELSE 0)
        /\ \A k \in 1..Len(written) :
              ~written[k].ok => load_results[written[k].dest] = "False"

\* the write of the file failed and the database was written after it
C11_Witness ==
    /\ LoadedTable
    /\ written = <<[dest |-> "csv", ok |-> FALSE], [dest |-> "postgresql", ok |-> TRUE]>>
    /\ load_results = [csv |-> "False", google_sheets |-> "None", postgresql |-> "True"]

\* C12: given None or a table without rows or columns, load_data calls no
\* writer and returns csv, google_sheets and postgresql all False, the
\* destinations that are not configured included.
C12_NothingToWrite ==
    (lpc # "idle" /\ (load_df.kind = "none" \/ IsEmpty(load_df))) =>
        /\ lpc \in {"start", "done"}
        /\ written = <<>>
        /\ lpc = "done" =>
              load_results = [csv |-> "False", google_sheets |-> "False",
                              postgresql |-> "False"]

\* load_data returned for a table without rows and no destination configured
C12_Witness ==
    /\ lpc = "done"
    /\ load_df = Frame(AllCols, <<>>)
    /\ google_sheet_id = NoParam
    /\ postgresql_conn_string = NoParam
    /\ load_results = [csv |-> "False", google_sheets |-> "False", postgresql |-> "False"]

\* extraction returned None or a table without rows
NothingExtracted == wpc = "done" /\ (raw_data.kind = "none" \/ IsEmpty(raw_data))

\* transformation returned a table without rows
NothingTransformed == tpc = "done" /\ IsEmpty(result)

\* C20: the phases of run_etl_pipeline run in the order extract, transform,
\* load; when extraction returned None or an empty table, or transformation
\* an empty table, the later phases do not run, no writer is called and
\* the run returns False.
C20_PhaseOrder ==
    /\ tpc # "idle" => wpc = "done"
    /\ lpc # "idle" => tpc = "done"
    /\ wpc # "done" => written = <<>>
    /\ NothingExtracted =>
          /\ tpc = "idle" /\ lpc = "idle" /\ written = <<>>
          /\ ppc = "done" => success = "False"
    /\ NothingTransformed =>
          /\ lpc = "idle" /\ written = <<>>
          /\ ppc = "done" => success = "False"
    /\ written # <<>> => (tpc = "done" /\ ~IsEmpty(result))

\* a run whose page gave records, none of them valid, ended with False
\* before load_data was called
C20_Witness ==
    /\ ppc = "done"
    /\ raw_data.kind = "frame" /\ Len(raw_data.rows) = 2
    /\ NothingTransformed
    /\ lpc = "idle"
    /\ success = "False"

\* the price texts $N without a decimal part
WholePriceTexts == {<<"$">> \o n : n \in WholeParts}

\* the valid listing whose price element, a span or a p, shows the text
WholePriced(tag, text) ==
    Card(TRUE, TitleB, [GoodElems EXCEPT ![1] = Elem(tag, text)])

\* C21: a price text "$N" without a decimal part is converted by clean_price
\* but extracted by scrape_page as a null price, so no raw record carries
\* such a text and the listing showing it is never a row of the clean table
\* of an end-to-end run.
C21_WholePriceNeverClean ==
    /\ gets = <<>> =>
          \A text \in WholePriceTexts :
             /\ ~isna(clean_price(StrVal(text)))
             /\ \A tag \in {"span", "p"} : isna(ExtractPrice(WholePriced(tag, text)))
    /\ \A i \in 1..Len(all_products) :
          LET price == all_products[i].Price IN
          \/ isna(price)
          \/ price.s = PriceUnavailable
          \/ HasDollarDecimal(price.s)
    /\ (ppc # "idle" /\ tpc = "done") =>
          \A i \in 1..Len(result.rows) : result.rows[i].Title # CardWhole.title

\* an end-to-end run that fetched the listing priced "$50" next to a valid
\* one wrote a clean table holding the valid listing only
C21_Witness ==
    /\ ppc = "done"
    /\ success = "True"
    /\ product_containers = <<CardGood, CardWhole>>
    /\ Len(raw_data.rows) = 2
    /\ isna(raw_data.rows[2].Price)
    /\ Len(result.rows) = 1
    /\ result.rows[1].Title = CardGood.title
    /\ written # <<>>

====
